---- MODULE Spec2Model ----
(***************************************************************************)
(* Model of src/email_assistant.py: the LegalEmailAssistant service, its   *)
(* mock/live mode switch, the pydantic schema of the analysis record and   *)
(* the two operations analyze_email and draft_reply.                       *)
(*                                                                         *)
(* Python values are tagged records: None, Str(s), Dict(d), List(l).       *)
(* Python dicts are mutable objects: the records that analyze_email        *)
(* returns live in `heap`, a sequence of cells indexed by address, and the *)
(* caller may change them after they are returned.  A text is a sequence   *)
(* of string pieces (the literal pieces of an f-string and the values      *)
(* interpolated between them).                                             *)
(***************************************************************************)
EXTENDS Integers, Sequences, FiniteSets, TLC

(* ----------------------------- bounds ---------------------------------- *)

\* number of analyze_email / draft_reply calls made on the instance
MaxCalls == 3

\* number of changes the caller makes to records it was handed
MaxMutations == 1

(* --------------------------- Python values ----------------------------- *)

None == [t |-> "none"]

Str(s) == [t |-> "str", s |-> s]

Dict(d) == [t |-> "dict", d |-> d]

List(l) == [t |-> "list", l |-> l]

\* Python truthiness of None and of a str
Truthy(v) == v.t = "str" /\ v.s # ""

\* Python `a or b`
PyOr(a, b) == IF Truthy(a) THEN a ELSE b

\* Python v[k] for a str key k: the value, or the exception raised
Subscript(v, k) ==
  IF v.t = "dict"
    THEN IF k \in DOMAIN v.d
           THEN [ok |-> TRUE, v |-> v.d[k]]
           ELSE [ok |-> FALSE, exc |-> "KeyError"]
    ELSE [ok |-> FALSE, exc |-> "TypeError"]

\* format(v) as an f-string replacement field computes it
Format(v) ==
  CASE v.t = "str" -> v.s
    [] v.t = "none" -> "None"
    [] v.t = "dict" -> "<dict repr>"
    [] v.t = "list" -> "<list repr>"

(* ------------------------------ schema --------------------------------- *)

\* The candidates of the model hold strings, None, dicts and lists of
\* strings; values that pydantic would coerce (numbers for a str field) are
\* not among them.

IsStr(v) == v.t = "str"

\* class Parties(BaseModel)
Parties(v) ==
  /\ v.t = "dict"
  /\ {"client", "counterparty"} \subseteq DOMAIN v.d
  /\ IsStr(v.d["client"])
  /\ IsStr(v.d["counterparty"])

\* class AgreementReference(BaseModel)
AgreementReference(v) ==
  /\ v.t = "dict"
  /\ {"type", "date"} \subseteq DOMAIN v.d
  /\ IsStr(v.d["type"])
  /\ IsStr(v.d["date"])

SchemaFields ==
  {"intent", "primary_topic", "parties", "agreement_reference",
   "questions", "requested_due_date", "urgency_level"}

\* urgency_level is declared `str`: any string passes
UrgencyField(v) == IsStr(v)

\* class EmailAnalysisSchema(BaseModel): does the candidate validate
EmailAnalysisSchema(c) ==
  /\ c.t = "dict"
  /\ SchemaFields \subseteq DOMAIN c.d
  /\ IsStr(c.d["intent"])
  /\ IsStr(c.d["primary_topic"])
  /\ Parties(c.d["parties"])
  /\ AgreementReference(c.d["agreement_reference"])
  /\ c.d["questions"].t = "list"
  /\ \A i \in DOMAIN c.d["questions"].l : IsStr(c.d["questions"].l[i])
  /\ IsStr(c.d["requested_due_date"])
  /\ UrgencyField(c.d["urgency_level"])

\* result.dict() of a validated instance: the declared fields only
SchemaDict(c) ==
  Dict([k \in SchemaFields |->
          CASE k = "parties" ->
                 Dict([j \in {"client", "counterparty"} |-> c.d[k].d[j]])
            [] k = "agreement_reference" ->
                 Dict([j \in {"type", "date"} |-> c.d[k].d[j]])
            [] OTHER -> c.d[k]])

(* ------------------------- values of the model ------------------------- *)

\* Python d without key k, and d with d[k] = x
Without(v, k) == Dict([j \in DOMAIN v.d \ {k} |-> v.d[j]])

With(v, k, x) == Dict([j \in DOMAIN v.d \cup {k} |-> IF j = k THEN x ELSE v.d[j]])

\* the reference record with another urgency level
MockRecord_Medium ==
  Dict([intent |-> Str("legal_advice_request"),
        primary_topic |-> Str("termination_for_cause"),
        parties |-> Dict([client |-> Str("Acme Technologies Pvt. Ltd."),
                          counterparty |-> Str("Brightwave Solutions LLP")]),
        agreement_reference |-> Dict([type |-> Str("Master Services Agreement"),
                                      date |-> Str("10 March 2023")]),
        questions |-> List(<<Str("Whether we are contractually entitled to terminate for cause on the basis of repeated delays in delivery"),
                             Str("The minimum notice period required")>>),
        requested_due_date |-> Str("18 November 2025"),
        urgency_level |-> Str("medium")])

\* the dict display of _mock_analysis_result
MockRecord ==
  Dict([intent |-> Str("legal_advice_request"),
        primary_topic |-> Str("termination_for_cause"),
        parties |-> Dict([client |-> Str("Acme Technologies Pvt. Ltd."),
                          counterparty |-> Str("Brightwave Solutions LLP")]),
        agreement_reference |-> Dict([type |-> Str("Master Services Agreement"),
                                      date |-> Str("10 March 2023")]),
        questions |-> List(<<Str("Whether we are contractually entitled to terminate for cause on the basis of repeated delays in delivery"),
                             Str("The minimum notice period required")>>),
        requested_due_date |-> Str("18 November 2025"),
        urgency_level |-> Str("high")])

\* a well-formed object the model may extract from some other email
LiveRecord ==
  Dict([intent |-> Str("contract_review_request"),
        primary_topic |-> Str("confidentiality"),
        parties |-> Dict([client |-> Str("Globex Ltd."),
                          counterparty |-> Str("Initech LLC")]),
        agreement_reference |-> Dict([type |-> Str("Non-Disclosure Agreement"),
                                      date |-> Str("1 June 2024")]),
        questions |-> List(<< >>),
        requested_due_date |-> Str("30 June 2024"),
        urgency_level |-> Str("low")])

\* objects the structured-output call may be handed by the model
Candidates ==
  { LiveRecord,
    With(LiveRecord, "confidence", Str("0.9")),
    With(LiveRecord, "urgency_level", Str("critical")),
    With(LiveRecord, "parties", Without(LiveRecord.d["parties"], "counterparty")),
    Without(LiveRecord, "questions"),
    With(LiveRecord, "intent", None) }

\* outcomes of chain.invoke in analyze_email
AnalyzeResponses ==
  {[kind |-> "error"], [kind |-> "none"]}
    \cup {[kind |-> "object", obj |-> c] : c \in Candidates}

\* outcomes of chain.invoke in draft_reply
DraftResponses ==
  {[kind |-> "error"],
   [kind |-> "message", content |-> <<"Dear Ms. Sharma, (model text A)">>],
   [kind |-> "message", content |-> <<"Dear Counsel, (model text B)">>]}

EmailTexts == {"SAMPLE_EMAIL", "Subject: NDA review"}

ContractTexts == {"CONTRACT_SNIPPET", "Clause 4 - Confidentiality"}

\* constructor arguments and the environment variable OPENAI_API_KEY
KeyValues == {None, Str(""), Str("sk-test")}

ModelNames == {"gpt-4-turbo"}

\* changes a caller can make to a dict it was handed
Mutations ==
  {"set_urgency", "del_parties", "del_agreement_reference", "set_type",
   "set_due_date"}

ApplyMutation(r, m) ==
  CASE m = "set_urgency" -> With(r, "urgency_level", Str("critical"))
    [] m = "del_parties" -> Without(r, "parties")
    [] m = "del_agreement_reference" -> Without(r, "agreement_reference")
    [] m = "set_type" ->
         IF "agreement_reference" \in DOMAIN r.d
           THEN With(r, "agreement_reference",
                     With(r.d["agreement_reference"], "type", Str("Supply Agreement")))
           ELSE r
    [] m = "set_due_date" -> With(r, "requested_due_date", Str("1 January 2026"))

(* ------------------------------- state --------------------------------- *)

VARIABLES
  pc,                  \* "new", "idle", "analyze_wait", "draft_wait"
  LANGCHAIN_AVAILABLE, \* did the optional imports succeed
  env_key,             \* os.getenv("OPENAI_API_KEY")
  arg_key,             \* the api_key argument __init__ was given
  api_key,             \* self.api_key
  model_name,          \* self.model_name
  use_mock,            \* self.use_mock
  llm,                 \* self.llm, None while it was never assigned
  heap,                \* the dicts handed to the caller, by address
  call,                \* the call in progress or last completed
  ret,                 \* how the last completed call ended
  request,             \* the request the pending chain.invoke has sent
  nreq,                \* requests sent by the call in progress or last completed
  requests,            \* requests sent since construction
  ncalls,              \* calls started since construction
  nmut,                \* changes the caller made to its records
  last                 \* what the last completed call was given and gave back

vars ==
  <<pc, LANGCHAIN_AVAILABLE, env_key, arg_key, api_key, model_name, use_mock, llm,
    heap, call, ret, request, nreq, requests, ncalls, nmut, last>>

NoCall == [op |-> "none", email_text |-> "", contract_text |-> "", analysis |-> 0]

NoRet == [kind |-> "none"]

Raise(e) == [kind |-> "raise", exc |-> e]

NoObs ==
  [op |-> "none", email_text |-> "", contract_text |-> "", arg |-> None,
   mock |-> TRUE, resp |-> None, nreq |-> 0, out |-> NoRet]

\* the module is imported, no instance exists yet
Init ==
  /\ pc = "new"
  /\ LANGCHAIN_AVAILABLE \in BOOLEAN
  /\ env_key \in KeyValues
  /\ arg_key = None
  /\ api_key = None
  /\ model_name = ""
  /\ use_mock = TRUE
  /\ llm = None
  /\ heap = << >>
  /\ call = NoCall
  /\ ret = NoRet
  /\ request = None
  /\ nreq = 0
  /\ requests = 0
  /\ ncalls = 0
  /\ nmut = 0
  /\ last = NoObs

(* ---------------------------- construction ----------------------------- *)

\* self.api_key = api_key or os.getenv("OPENAI_API_KEY")
ResolveKey(arg, env) == PyOr(arg, env)

\* the mode decided from the credential alone
UseMock_KeyOnly(key, available) == ~Truthy(key)

\* self.use_mock = not (self.api_key and LANGCHAIN_AVAILABLE)
UseMock(key, available) == ~(Truthy(key) /\ available)

\* LegalEmailAssistant.__init__
Construct(key_arg, name_arg) ==
  /\ pc = "new"
  /\ arg_key' = key_arg
  /\ api_key' = ResolveKey(key_arg, env_key)
  /\ model_name' = name_arg
  /\ use_mock' = UseMock(api_key', LANGCHAIN_AVAILABLE)
  /\ llm' = IF use_mock'
              THEN None
              ELSE [t |-> "ChatOpenAI", api_key |-> api_key',
                    model |-> name_arg, temperature |-> 0]
  /\ call' = [NoCall EXCEPT !.op = "__init__"]
  /\ pc' = "idle"
  /\ UNCHANGED <<LANGCHAIN_AVAILABLE, env_key, heap, ret, request, nreq,
                 requests, ncalls, nmut, last>>

(* ------------------------------- mocks --------------------------------- *)

\* one dict built once and handed out by every call
mock_analysis_result_shared(h) ==
  IF Len(h) > 0
    THEN [heap |-> h, addr |-> 1]
    ELSE [heap |-> Append(h, MockRecord), addr |-> 1]

\* _mock_analysis_result: the dict display builds a new object on every call
mock_analysis_result(h) ==
  [heap |-> Append(h, MockRecord), addr |-> Len(h) + 1]

\* the reply with the agreement type written into the template
mock_draft_result_fixed_type(analysis) ==
  LET ar == Subscript(analysis, "agreement_reference") IN
  IF ~ar.ok THEN Raise(ar.exc)
  ELSE LET dt == Subscript(ar.v, "date") IN
       IF ~dt.ok THEN Raise(dt.exc)
       ELSE [kind |-> "text",
             text |-> <<"Dear Ms. Sharma,\n\nThank you for your email regarding the ",
                        "Master Services Agreement",
                        " dated ",
                        Format(dt.v),
                        ".\n\nRegarding your query on termination for cause: Under ",
                        "Clause 9.2",
                        " of the Agreement, repeated failure to meet delivery timelines explicitly constitutes a 'material breach.' Therefore, you are contractually entitled to terminate the agreement on these grounds.\n\nAs per ",
                        "Clause 9.1",
                        " read in conjunction with ",
                        "Clause 10.2",
                        ", the minimum notice period required to effect this termination is ",
                        "thirty (30) days",
                        "' prior written notice.\n\nPlease let us know if you would like our assistance in drafting the formal notice.\n\nRegards,\nLegal Team">>]

\* _mock_draft_result: the f-string, or the exception a subscript raises
mock_draft_result(analysis) ==
  LET ar == Subscript(analysis, "agreement_reference") IN
  IF ~ar.ok THEN Raise(ar.exc)
  ELSE LET ty == Subscript(ar.v, "type") IN
       IF ~ty.ok THEN Raise(ty.exc)
       ELSE LET dt == Subscript(ar.v, "date") IN
            IF ~dt.ok THEN Raise(dt.exc)
            ELSE [kind |-> "text",
                  text |-> <<"Dear Ms. Sharma,\n\nThank you for your email regarding the ",
                             Format(ty.v),
                             " dated ",
                             Format(dt.v),
                             ".\n\nRegarding your query on termination for cause: Under ",
                             "Clause 9.2",
                             " of the Agreement, repeated failure to meet delivery timelines explicitly constitutes a 'material breach.' Therefore, you are contractually entitled to terminate the agreement on these grounds.\n\nAs per ",
                             "Clause 9.1",
                             " read in conjunction with ",
                             "Clause 10.2",
                             ", the minimum notice period required to effect this termination is ",
                             "thirty (30) days",
                             "' prior written notice.\n\nPlease let us know if you would like our assistance in drafting the formal notice.\n\nRegards,\nLegal Team">>]

(* ----------------------------- operations ------------------------------ *)

\* what a completed call was given and what it gave back
Obs(c, argval, rsp, n, r) ==
  [op |-> c.op, email_text |-> c.email_text, contract_text |-> c.contract_text,
   arg |-> argval, mock |-> use_mock, resp |-> rsp, nreq |-> n, out |-> r]

\* the prompt of analyze_email with {input} bound
AnalyzePrompt(email_text) ==
  [system |-> "You are a legal AI assistant. Extract structured data from the provided email.",
   human |-> email_text,
   schema |-> "EmailAnalysisSchema"]

\* json.dumps(analysis, indent=2)
JsonDumps(v) == [json |-> v]

\* the arguments of chain.invoke in draft_reply, or the exception raised
\* while they are evaluated
DraftPrompt(email_text, analysis, contract_text) ==
  LET ps == Subscript(analysis, "parties") IN
  IF ~ps.ok THEN Raise(ps.exc)
  ELSE LET cl == Subscript(ps.v, "client") IN
       IF ~cl.ok THEN Raise(cl.exc)
       ELSE [kind |-> "prompt",
             client |-> cl.v,
             contract_text |-> contract_text,
             email_text |-> email_text,
             analysis_json |-> JsonDumps(analysis)]

\* what analyze_email does with the outcome of chain.invoke:
\* an exception propagates, anything else is sent .dict()
analyze_email_result(resp) ==
  CASE resp.kind = "error" -> Raise("CapabilityError")
    [] resp.kind = "none" -> Raise("AttributeError")
    [] resp.kind = "object" ->
         IF EmailAnalysisSchema(resp.obj)
           THEN [kind |-> "record", value |-> SchemaDict(resp.obj)]
           ELSE Raise("ValidationError")

\* what draft_reply does with the outcome of chain.invoke
draft_reply_result(resp) ==
  CASE resp.kind = "error" -> Raise("CapabilityError")
    [] resp.kind = "message" -> [kind |-> "text", text |-> resp.content]

\* analyze_email up to its return (mock) or up to chain.invoke (live)
analyze_email(email_text) ==
  /\ pc = "idle"
  /\ ncalls < MaxCalls
  /\ ncalls' = ncalls + 1
  /\ call' = [op |-> "analyze_email", email_text |-> email_text,
              contract_text |-> "", analysis |-> 0]
  /\ IF use_mock
       THEN LET m == mock_analysis_result(heap)
                r == [kind |-> "record", addr |-> m.addr, value |-> m.heap[m.addr]] IN
            /\ heap' = m.heap
            /\ ret' = r
            /\ last' = Obs(call', None, None, 0, r)
            /\ nreq' = 0
            /\ pc' = "idle"
            /\ UNCHANGED <<request, requests>>
       ELSE /\ request' = AnalyzePrompt(email_text)
            /\ nreq' = 1
            /\ requests' = requests + 1
            /\ ret' = NoRet
            /\ pc' = "analyze_wait"
            /\ UNCHANGED <<heap, last>>
  /\ UNCHANGED <<LANGCHAIN_AVAILABLE, env_key, arg_key, api_key, model_name, use_mock,
                 llm, nmut>>

\* analyze_email catching a failure and answering as mock mode would
analyze_email_return_fallback(resp) ==
  /\ pc = "analyze_wait"
  /\ LET o == analyze_email_result(resp)
         v == IF o.kind = "raise" THEN MockRecord ELSE o.value
         r == [kind |-> "record", addr |-> Len(heap) + 1, value |-> v] IN
     /\ heap' = Append(heap, v)
     /\ ret' = r
     /\ last' = Obs(call, None, resp, nreq, r)
     /\ use_mock' = (use_mock \/ o.kind = "raise")
  /\ request' = None
  /\ pc' = "idle"
  /\ UNCHANGED <<LANGCHAIN_AVAILABLE, env_key, arg_key, api_key, model_name,
                 llm, call, nreq, requests, ncalls, nmut>>

\* analyze_email sending its request once more when the first one failed
analyze_email_return_retry(resp) ==
  /\ pc = "analyze_wait"
  /\ IF resp.kind = "error" /\ nreq < 2
       THEN /\ nreq' = nreq + 1
            /\ requests' = requests + 1
            /\ UNCHANGED <<pc, heap, ret, last, request>>
       ELSE /\ LET o == analyze_email_result(resp)
                   r == IF o.kind = "record"
                          THEN [kind |-> "record", addr |-> Len(heap) + 1, value |-> o.value]
                          ELSE o IN
               /\ heap' = IF o.kind = "record" THEN Append(heap, o.value) ELSE heap
               /\ ret' = r
               /\ last' = Obs(call, None, resp, nreq, r)
            /\ request' = None
            /\ pc' = "idle"
            /\ UNCHANGED <<nreq, requests>>
  /\ UNCHANGED <<LANGCHAIN_AVAILABLE, env_key, arg_key, api_key, model_name,
                 use_mock, llm, call, ncalls, nmut>>

\* chain.invoke of analyze_email ends, then `return result.dict()`
analyze_email_return(resp) ==
  /\ pc = "analyze_wait"
  /\ LET o == analyze_email_result(resp)
         r == IF o.kind = "record"
                THEN [kind |-> "record", addr |-> Len(heap) + 1, value |-> o.value]
                ELSE o IN
     /\ heap' = IF o.kind = "record" THEN Append(heap, o.value) ELSE heap
     /\ ret' = r
     /\ last' = Obs(call, None, resp, nreq, r)
  /\ request' = None
  /\ pc' = "idle"
  /\ UNCHANGED <<LANGCHAIN_AVAILABLE, env_key, arg_key, api_key, model_name, use_mock,
                 llm, call, nreq, requests, ncalls, nmut>>

\* draft_reply up to its return (mock) or up to chain.invoke (live)
draft_reply(email_text, analysis, contract_text) ==
  /\ pc = "idle"
  /\ ncalls < MaxCalls
  /\ analysis \in 1..Len(heap)
  /\ ncalls' = ncalls + 1
  /\ call' = [op |-> "draft_reply", email_text |-> email_text,
              contract_text |-> contract_text, analysis |-> analysis]
  /\ IF use_mock
       THEN LET r == mock_draft_result(heap[analysis]) IN
            /\ ret' = r
            /\ last' = Obs(call', heap[analysis], None, 0, r)
            /\ nreq' = 0
            /\ pc' = "idle"
            /\ UNCHANGED <<request, requests>>
       ELSE LET p == DraftPrompt(email_text, heap[analysis], contract_text) IN
            IF p.kind = "raise"
              THEN /\ ret' = p
                   /\ last' = Obs(call', heap[analysis], None, 0, p)
                   /\ nreq' = 0
                   /\ pc' = "idle"
                   /\ UNCHANGED <<request, requests>>
              ELSE /\ request' = p
                   /\ nreq' = 1
                   /\ requests' = requests + 1
                   /\ ret' = NoRet
                   /\ pc' = "draft_wait"
                   /\ UNCHANGED last
  /\ UNCHANGED <<LANGCHAIN_AVAILABLE, env_key, arg_key, api_key, model_name, use_mock,
                 llm, heap, nmut>>

\* chain.invoke of draft_reply ends, then `return response.content`
draft_reply_return(resp) ==
  /\ pc = "draft_wait"
  /\ LET r == draft_reply_result(resp) IN
     /\ ret' = r
     /\ last' = Obs(call, heap[call.analysis], resp, nreq, r)
  /\ request' = None
  /\ pc' = "idle"
  /\ UNCHANGED <<LANGCHAIN_AVAILABLE, env_key, arg_key, api_key, model_name, use_mock,
                 llm, heap, call, nreq, requests, ncalls, nmut>>

\* between two calls the caller changes a dict it was handed
Mutate(a, m) ==
  /\ pc = "idle"
  /\ nmut < MaxMutations
  /\ a \in 1..Len(heap)
  /\ heap' = [heap EXCEPT ![a] = ApplyMutation(heap[a], m)]
  /\ heap' # heap
  /\ nmut' = nmut + 1
  /\ UNCHANGED <<pc, LANGCHAIN_AVAILABLE, env_key, arg_key, api_key, model_name,
                 use_mock, llm, call, ret, request, nreq, requests, ncalls,
                 last>>

Next ==
  \/ \E k \in KeyValues, n \in ModelNames : Construct(k, n)
  \/ \E e \in EmailTexts : analyze_email(e)
  \/ \E resp \in AnalyzeResponses : analyze_email_return(resp)
  \/ \E e \in EmailTexts, a \in 1..MaxCalls, c \in ContractTexts : draft_reply(e, a, c)
  \/ \E resp \in DraftResponses : draft_reply_return(resp)
  \/ \E a \in 1..MaxCalls, m \in Mutations : Mutate(a, m)

Spec == Init /\ [][Next]_vars

(* ------------------------------ properties ----------------------------- *)

\* a credential is available: a non-empty string
NonEmpty(v) == v.t = "str" /\ v.s # ""

\* the StructuredRecord invariants of the specification
StructuredRecordInv(v) ==
  /\ v.t = "dict"
  /\ SchemaFields \subseteq DOMAIN v.d
  /\ \A k \in SchemaFields : v.d[k].t # "none"
  /\ v.d["parties"].t = "dict"
  /\ {"client", "counterparty"} \subseteq DOMAIN v.d["parties"].d
  /\ \A k \in {"client", "counterparty"} : v.d["parties"].d[k].t = "str"
  /\ v.d["agreement_reference"].t = "dict"
  /\ {"type", "date"} \subseteq DOMAIN v.d["agreement_reference"].d
  /\ \A k \in {"type", "date"} : v.d["agreement_reference"].d[k].t = "str"
  /\ v.d["urgency_level"] \in {Str("low"), Str("medium"), Str("high")}

\* the completed call the state remembers
Completed == {o \in {last} : o.op # "none"}

\* C1: once constructed, the service is in live mode if and only if a
\* non-empty credential is available (the constructor argument, or else the
\* environment variable) and the model-invocation capability is present;
\* every other combination gives mock mode, and construction completes.
C1_ModeSelection ==
  pc # "new" =>
    /\ pc \in {"idle", "analyze_wait", "draft_wait"}
    /\ (~use_mock) <=> ((NonEmpty(arg_key) \/ NonEmpty(env_key)) /\ LANGCHAIN_AVAILABLE)
    /\ (~use_mock) <=> (llm # None)

\* live mode selected from the environment variable alone
C1_Witness ==
  /\ pc = "idle"
  /\ arg_key = None
  /\ NonEmpty(env_key)
  /\ ~use_mock

\* C2: after construction no step of analyze_email or draft_reply, failing
\* or not, changes the mode.
C2_ModeFixed == [][pc # "new" => use_mock' = use_mock]_vars

\* a live instance after its last call, which failed
C2_Witness ==
  /\ ~use_mock
  /\ ncalls = MaxCalls
  /\ pc = "idle"
  /\ ret.kind = "raise"

\* C3: every mock-mode analyze_email returns the reference record, whatever
\* the email text, the calls before it and the changes the caller made to
\* earlier results.
C3_MockAnalyze ==
  \A o \in Completed :
    (o.op = "analyze_email" /\ o.mock) =>
      /\ o.out.kind = "record"
      /\ DOMAIN o.out.value.d = SchemaFields
      /\ o.out.value.d["intent"] = Str("legal_advice_request")
      /\ o.out.value.d["primary_topic"] = Str("termination_for_cause")
      /\ o.out.value.d["parties"] =
           Dict([client |-> Str("Acme Technologies Pvt. Ltd."),
                 counterparty |-> Str("Brightwave Solutions LLP")])
      /\ o.out.value.d["agreement_reference"] =
           Dict([type |-> Str("Master Services Agreement"),
                 date |-> Str("10 March 2023")])
      /\ Len(o.out.value.d["questions"].l) = 2
      /\ o.out.value.d["questions"].l[1] =
           Str("Whether we are contractually entitled to terminate for cause on the basis of repeated delays in delivery")
      /\ o.out.value.d["questions"].l[2] = Str("The minimum notice period required")
      /\ o.out.value.d["requested_due_date"] = Str("18 November 2025")
      /\ o.out.value.d["urgency_level"] = Str("high")

\* a second mock analysis, of another email than the sample, returned
\* after the caller changed the result of the first
C3_Witness ==
  /\ use_mock
  /\ last.op = "analyze_email"
  /\ last.email_text = "Subject: NDA review"
  /\ nmut > 0
  /\ Len(heap) = 2
  /\ heap[1] # heap[2]
  /\ last.out.addr = 2

\* the record has an agreement_reference with a type and a date string
HasTypeDate(v) ==
  /\ v.t = "dict"
  /\ "agreement_reference" \in DOMAIN v.d
  /\ v.d["agreement_reference"].t = "dict"
  /\ {"type", "date"} \subseteq DOMAIN v.d["agreement_reference"].d
  /\ v.d["agreement_reference"].d["type"].t = "str"
  /\ v.d["agreement_reference"].d["date"].t = "str"

Pieces(text) == {text[i] : i \in DOMAIN text}

IsMockDraft(o) == o.op = "draft_reply" /\ o.mock /\ HasTypeDate(o.arg)

\* C4: a mock-mode draft_reply returns the reply template with the record's
\* agreement type and date interpolated verbatim, citing Clause 9.2, Clause
\* 9.1, Clause 10.2 and thirty (30) days; a call whose record agrees on
\* type and date with the record of the call before it returns the same
\* text, whatever email_text, contract_text and the rest of the record are.
C4_MockDraft ==
  [][ /\ IsMockDraft(last') =>
           /\ last'.out.kind = "text"
           /\ Len(last'.out.text) = 13
           /\ last'.out.text[2] = last'.arg.d["agreement_reference"].d["type"].s
           /\ last'.out.text[3] = " dated "
           /\ last'.out.text[4] = last'.arg.d["agreement_reference"].d["date"].s
           /\ {"Clause 9.2", "Clause 9.1", "Clause 10.2", "thirty (30) days"}
                \subseteq Pieces(last'.out.text)
      /\ (/\ IsMockDraft(last)
          /\ IsMockDraft(last')
          /\ last'.arg.d["agreement_reference"] = last.arg.d["agreement_reference"])
           => last'.out = last.out
    ]_vars

\* the second of two mock replies to one analysis, for the other email and
\* contract, the record changed outside its agreement reference
C4_Witness ==
  /\ IsMockDraft(last)
  /\ ncalls = 3
  /\ Len(heap) = 1
  /\ last.email_text = "Subject: NDA review"
  /\ last.contract_text = "Clause 4 - Confidentiality"
  /\ last.arg.d["requested_due_date"] = Str("1 January 2026")
  /\ last.arg.d["agreement_reference"] = MockRecord.d["agreement_reference"]
  /\ last.out.kind = "text"

\* C5: schema validation lets a candidate through only when it satisfies
\* the StructuredRecord invariants, and turns every other candidate down
\* with a ValidationError: an urgency_level outside low, medium, high, a
\* missing required field, parties without client or counterparty.
C5_ValidationRejects ==
  \A o \in Completed :
    (o.op = "analyze_email" /\ ~o.mock /\ o.resp.kind = "object") =>
      /\ o.out.kind = "record" => StructuredRecordInv(o.resp.obj)
      /\ ~StructuredRecordInv(o.resp.obj) => o.out = Raise("ValidationError")

\* C6: every record analyze_email returns, in mock and in live mode,
\* satisfies the StructuredRecord invariants.
C6_ReturnedRecordsValid ==
  \A o \in Completed :
    (o.op = "analyze_email" /\ o.out.kind = "record") =>
      StructuredRecordInv(o.out.value)

\* the capability failed or answered with something that is not a
\* StructuredRecord
CapabilityFailed(o) ==
  \/ o.resp.kind \in {"error", "none"}
  \/ o.resp.kind = "object" /\ ~StructuredRecordInv(o.resp.obj)

\* C7: in live mode a call whose request failed, or was answered with a
\* non-conforming object, fails: it returns neither a record nor a text,
\* mock or not, and it has sent one request only.
C7_NoLocalRecovery ==
  \A o \in Completed :
    (~o.mock /\ o.nreq > 0 /\ CapabilityFailed(o)) =>
      /\ o.out.kind = "raise"
      /\ o.nreq = 1

\* C8: a call starts only when no call is in progress; a request is sent
\* only by the step that starts a live-mode call, one request per call;
\* mock mode sends none; exactly the calls that sent a request wait for the
\* capability.
C8_OneRequestPerCall ==
  [][ /\ (ncalls' # ncalls) => (pc = "idle" /\ ncalls' = ncalls + 1)
      /\ (requests' # requests) =>
           /\ requests' = requests + 1
           /\ ncalls' # ncalls
           /\ ~use_mock
           /\ nreq' = 1
      /\ (ncalls' # ncalls /\ requests' = requests) => nreq' = 0
      /\ (pc' \in {"analyze_wait", "draft_wait"}) <=> (request' # None)
      /\ (pc' \in {"analyze_wait", "draft_wait"}) => nreq' = 1
      /\ (pc # "new" /\ use_mock) => (requests' = 0 /\ nreq' = 0)
      /\ nreq' \in {0, 1}
    ]_vars

\* a live instance that made all its calls, the last one answered
C8_Witness ==
  /\ ~use_mock
  /\ ncalls = MaxCalls
  /\ requests = MaxCalls
  /\ pc = "idle"
  /\ last.op = "draft_reply"
  /\ last.nreq = 1

\* a step in which analyze_email returns a record
AnalyzeReturns ==
  /\ call'.op = "analyze_email"
  /\ ret'.kind = "record"
  /\ (ncalls' # ncalls \/ pc = "analyze_wait")

\* a step of draft_reply
DraftSteps ==
  /\ call'.op = "draft_reply"
  /\ (ncalls' # ncalls \/ pc = "draft_wait")

\* C9: no step of draft_reply changes a record, and the record
\* analyze_email returns is a new object: it is none of the records handed
\* out before, and those are left as they were.
C9_FreshAndReadOnly ==
  [][ /\ DraftSteps => heap' = heap
      /\ AnalyzeReturns =>
           /\ ret'.addr \notin 1..Len(heap)
           /\ ret'.addr \in 1..Len(heap')
           /\ \A a \in 1..Len(heap) : heap'[a] = heap[a]
    ]_vars

\* after an analysis, a change by the caller and a reply, a second
\* analysis returned; the first result still shows the change
C9_Witness ==
  /\ use_mock
  /\ ncalls = 3
  /\ Len(heap) = 2
  /\ last.op = "analyze_email"
  /\ last.out.kind = "record"
  /\ last.out.addr = 2
  /\ nmut > 0
  /\ heap[1] # heap[2]
  /\ heap[2] = last.out.value

\* C10: draft_reply fails for every record that violates the
\* StructuredRecord invariants, in both modes, and sends no request.
C10_DraftValidates ==
  \A o \in Completed :
    (o.op = "draft_reply" /\ ~StructuredRecordInv(o.arg)) =>
      /\ o.out.kind = "raise"
      /\ o.nreq = 0

====
